---- MODULE Spec2Model ----
(***************************************************************************)
(* The App component of src/App.jsx: two useState counters, the two inline *)
(* increment handlers that close over the rendered counter values, and the *)
(* useMemo-cached value count1 * 60 * 5 keyed on count1.                   *)
(*                                                                         *)
(* The component is modelled as pure functions over a record of its hook   *)
(* state (setCount1, incrementCount1, useMemo, renderApp, ...); the        *)
(* actions apply them to the variables.  Three specifications:             *)
(*   Spec           one action per click event: the handler runs and React *)
(*                  flushes the scheduled re-render before the next event; *)
(*   SpecBatched    handler calls and the flush are separate steps, so     *)
(*                  several handler calls can precede one re-render;       *)
(*   SpecEmptyDeps  the commented variant of lines 110-111, where the      *)
(*                  handlers are memoized with useCallback(..., []).       *)
(***************************************************************************)
EXTENDS Integers, FiniteSets

VARIABLES
    count1,     \* useState slot of line 104 (value the next render will read)
    count2,     \* useState slot of line 105
    h1,         \* count1 closed over by the incrementCount1 attached to the button
    h2,         \* count2 closed over by the incrementCount2 attached to the button
    shown1,     \* "Count1: {count1}" of the last render
    shown2,     \* "Count2: {count2}" of the last render
    shownLong,  \* "Do Something That Takes Long : {...}" of the last render
    memo,       \* the useMemo cache: [has, dep, val, ran]
    logCount,   \* number of console.log("somethingThatTakesLong") traces
    renders,    \* number of times the App function has run (the mount included)
    dirty,      \* a re-render is scheduled and not yet applied
    presses1,   \* history: presses of "Increase Count1"
    presses2,   \* history: presses of "Increase Count2"
    lost1,      \* history: presses of Count1 made while a count1 update was unrendered
    lost2,      \* history: presses of Count2 made while a count2 update was unrendered
    seen1       \* history: the set of count1 values that have been rendered

vars == <<count1, count2, h1, h2, shown1, shown2, shownLong, memo, logCount,
          renders, dirty, presses1, presses2, lost1, lost2, seen1>>

\* Bound on the number of presses of each button.
MaxPress == 10

-----------------------------------------------------------------------------
(* The component as pure functions over its hook state.                    *)

\* The hook state of the component as one record.
State ==
    [count1 |-> count1, count2 |-> count2, h1 |-> h1, h2 |-> h2,
     shown1 |-> shown1, shown2 |-> shown2, shownLong |-> shownLong,
     memo |-> memo, logCount |-> logCount, renders |-> renders, dirty |-> dirty]

\* The hook slots before the first render: useState(0) twice, empty memo cache.
Unmounted ==
    [count1 |-> 0, count2 |-> 0, h1 |-> 0, h2 |-> 0,
     shown1 |-> 0, shown2 |-> 0, shownLong |-> 0,
     memo |-> [has |-> FALSE, dep |-> 0, val |-> 0, ran |-> FALSE],
     logCount |-> 0, renders |-> 0, dirty |-> FALSE]

\* setCount1(v): a state equal to the current one bails out, any other value
\* is stored and schedules a re-render.
setCount1(s, v) ==
    IF v = s.count1 THEN s ELSE [s EXCEPT !.count1 = v, !.dirty = TRUE]

\* setCount2(v), likewise.
setCount2(s, v) ==
    IF v = s.count2 THEN s ELSE [s EXCEPT !.count2 = v, !.dirty = TRUE]

\* Faulty variants of incrementCount1: adds two, re-writes the captured value,
\* reads the pending state instead of the captured value.
incrementCount1ByTwo(s) == setCount1(s, s.h1 + 2)
incrementCount1NoOp(s) == setCount1(s, s.h1)
incrementCount1Functional(s) == setCount1(s, s.count1 + 1)

\* () => setCount1(count1 + 1), with count1 the value the closure captured.
incrementCount1(s) == setCount1(s, s.h1 + 1)

\* Faulty variant of incrementCount2: calls the other counter's setter.
incrementCount2Typo(s) == setCount1(s, s.h2 + 1)

\* () => setCount2(count2 + 1), with count2 the value the closure captured.
incrementCount2(s) == setCount2(s, s.h2 + 1)

\* Faulty variant of somethingThatTakesLong: the factor 5 is dropped.
somethingThatTakesLongNoFive(c) == c * 60

\* The memoized factory's result: count1 * 60 * 5.
somethingThatTakesLong(c) == c * 60 * 5

\* Faulty variants of useMemo: no dependency list (recompute on every render), and an
\* empty dependency list (compute at the mount only).
useMemoNoDeps(cache, dep) ==
    [has |-> TRUE, dep |-> dep, val |-> somethingThatTakesLong(dep), ran |-> TRUE]
useMemoEmptyDeps(cache, dep) ==
    IF ~cache.has
    THEN [has |-> TRUE, dep |-> dep, val |-> somethingThatTakesLong(dep), ran |-> TRUE]
    ELSE [cache EXCEPT !.ran = FALSE]

\* useMemo(factory, [dep]): the factory runs (and logs) at the mount and when
\* dep differs from the dep of the cached value; otherwise the cache is reused.
useMemo(cache, dep) ==
    IF ~cache.has \/ cache.dep # dep
    THEN [has |-> TRUE, dep |-> dep, val |-> somethingThatTakesLong(dep), ran |-> TRUE]
    ELSE [cache EXCEPT !.ran = FALSE]

\* Faulty variant of renderApp: the memo is keyed on count2 instead of count1.
renderAppDepsCount2(s) ==
    LET m == IF ~s.memo.has \/ s.memo.dep # s.count2
             THEN [has |-> TRUE, dep |-> s.count2,
                   val |-> somethingThatTakesLong(s.count1), ran |-> TRUE]
             ELSE [s.memo EXCEPT !.ran = FALSE]
    IN  [s EXCEPT !.h1 = s.count1, !.h2 = s.count2,
                  !.shown1 = s.count1, !.shown2 = s.count2,
                  !.shownLong = m.val,
                  !.memo = m,
                  !.logCount = @ + (IF m.ran THEN 1 ELSE 0),
                  !.renders = @ + 1, !.dirty = FALSE]

\* One run of the App function: read the two state slots, create the two
\* handlers over them, evaluate useMemo on count1, output the three values.
renderApp(s) ==
    LET m == useMemo(s.memo, s.count1)
    IN  [s EXCEPT !.h1 = s.count1, !.h2 = s.count2,
                  !.shown1 = s.count1, !.shown2 = s.count2,
                  !.shownLong = m.val,
                  !.memo = m,
                  !.logCount = @ + (IF m.ran THEN 1 ELSE 0),
                  !.renders = @ + 1, !.dirty = FALSE]

\* Faulty variant of renderAppEmptyDeps: the handlers are re-created by each render.
renderAppRecreate(s) == renderApp(s)

\* The variant of lines 110-111: useCallback(..., []) keeps the handlers
\* created by the mount, so a re-render leaves the captured values alone.
renderAppEmptyDeps(s) ==
    IF s.renders = 0 THEN renderApp(s)
    ELSE [renderApp(s) EXCEPT !.h1 = s.h1, !.h2 = s.h2]

\* React applies a scheduled re-render; nothing is scheduled after a bail-out.
flush(s) == IF s.dirty THEN renderApp(s) ELSE s

\* The same for the useCallback(..., []) variant.
flushEmptyDeps(s) == IF s.dirty THEN renderAppEmptyDeps(s) ELSE s

\* The state after the initial mount.
Mounted == renderApp(Unmounted)

-----------------------------------------------------------------------------
(* Actions.                                                                *)

\* The variables take the values of the record t.
Becomes(t) ==
    /\ count1' = t.count1 /\ count2' = t.count2
    /\ h1' = t.h1 /\ h2' = t.h2
    /\ shown1' = t.shown1 /\ shown2' = t.shown2 /\ shownLong' = t.shownLong
    /\ memo' = t.memo /\ logCount' = t.logCount
    /\ renders' = t.renders /\ dirty' = t.dirty
    /\ seen1' = IF t.renders > renders THEN seen1 \cup {t.shown1} ELSE seen1

Init ==
    /\ count1 = Mounted.count1 /\ count2 = Mounted.count2
    /\ h1 = Mounted.h1 /\ h2 = Mounted.h2
    /\ shown1 = Mounted.shown1 /\ shown2 = Mounted.shown2
    /\ shownLong = Mounted.shownLong
    /\ memo = Mounted.memo /\ logCount = Mounted.logCount
    /\ renders = Mounted.renders /\ dirty = Mounted.dirty
    /\ presses1 = 0 /\ presses2 = 0 /\ lost1 = 0 /\ lost2 = 0
    /\ seen1 = {Mounted.shown1}

\* History of a press of "Increase Count1".
Pressed1 ==
    /\ presses1' = presses1 + 1
    /\ lost1' = IF count1 # h1 THEN lost1 + 1 ELSE lost1
    /\ UNCHANGED <<presses2, lost2>>

\* History of a press of "Increase Count2".
Pressed2 ==
    /\ presses2' = presses2 + 1
    /\ lost2' = IF count2 # h2 THEN lost2 + 1 ELSE lost2
    /\ UNCHANGED <<presses1, lost1>>

\* A click on "Increase Count1": onClick runs the handler, then React applies
\* the re-render it scheduled.
ClickCount1 ==
    /\ presses1 < MaxPress
    /\ Becomes(flush(incrementCount1(State)))
    /\ Pressed1

\* Faulty variant of ClickCount2: the handler calls the other counter's setter.
ClickCount2Typo ==
    /\ presses2 < MaxPress
    /\ Becomes(flush(incrementCount2Typo(State)))
    /\ Pressed2

\* A click on "Increase Count2".
ClickCount2 ==
    /\ presses2 < MaxPress
    /\ Becomes(flush(incrementCount2(State)))
    /\ Pressed2

Next == ClickCount1 \/ ClickCount2

Spec == Init /\ [][Next]_vars

\* The handler of "Increase Count1" runs; the re-render is still to come.
HandlerCount1 ==
    /\ presses1 < MaxPress
    /\ Becomes(incrementCount1(State))
    /\ Pressed1

\* The handler of "Increase Count2" runs; the re-render is still to come.
HandlerCount2 ==
    /\ presses2 < MaxPress
    /\ Becomes(incrementCount2(State))
    /\ Pressed2

\* React applies the scheduled re-render.
Flush ==
    /\ dirty
    /\ Becomes(flush(State))
    /\ UNCHANGED <<presses1, presses2, lost1, lost2>>

NextBatched == HandlerCount1 \/ HandlerCount2 \/ Flush

SpecBatched == Init /\ [][NextBatched]_vars

\* A click on "Increase Count1" in the useCallback(..., []) variant.
ClickCount1EmptyDeps ==
    /\ presses1 < MaxPress
    /\ Becomes(flushEmptyDeps(incrementCount1(State)))
    /\ Pressed1

\* A click on "Increase Count2" in the useCallback(..., []) variant.
ClickCount2EmptyDeps ==
    /\ presses2 < MaxPress
    /\ Becomes(flushEmptyDeps(incrementCount2(State)))
    /\ Pressed2

NextEmptyDeps == ClickCount1EmptyDeps \/ ClickCount2EmptyDeps

SpecEmptyDeps == Init /\ [][NextEmptyDeps]_vars

-----------------------------------------------------------------------------
(* Properties.                                                             *)

\* C1: once the view has settled, Counter1 is the number of "Increase Count1"
\* presses and Counter2 the number of "Increase Count2" presses, both in the
\* state slots and on screen.
CountersEqualPresses ==
    /\ ~dirty
    /\ count1 = presses1 /\ shown1 = presses1
    /\ count2 = presses2 /\ shown2 = presses2

CountersEqualPressesWitness ==
    presses1 = 3 /\ presses2 = 2 /\ shown1 = 3 /\ shown2 = 2

\* C2: after every completed render, the mount included, the derived value on
\* screen is 300 times the Counter1 on screen, and the memo cache is keyed on
\* that same Counter1: no render shows a value computed from an older Counter1.
DerivedIsFresh ==
    /\ shownLong = 300 * shown1
    /\ memo.has /\ memo.dep = shown1 /\ memo.val = shownLong
    /\ (renders = 1 => shown1 = 0 /\ shown2 = 0 /\ shownLong = 0)

DerivedIsFreshWitness ==
    renders = 5 /\ shown1 = 2 /\ shown2 = 2 /\ shownLong = 600

\* C3: a press of one button leaves the other counter as it was, in the state
\* slot and on screen.
OtherCounterUnchanged ==
    [][ /\ presses1' # presses1 => count2' = count2 /\ shown2' = shown2
        /\ presses2' # presses2 => count1' = count1 /\ shown1' = shown1 ]_vars

OtherCounterUnchangedWitness ==
    presses1 = 2 /\ presses2 = 3 /\ count1 = 2 /\ count2 = 3

\* C4: a press of "Increase Count2", with the render it triggers, emits no
\* trace and leaves the derived value and Counter1 as they were.
Count2PressRecomputesNothing ==
    [][ presses2' # presses2 =>
          /\ renders' = renders + 1 /\ ~memo'.ran
          /\ logCount' = logCount
          /\ shownLong' = shownLong /\ memo'.val = memo.val
          /\ count1' = count1 /\ shown1' = shown1 ]_vars

Count2PressRecomputesNothingWitness ==
    presses1 = 0 /\ presses2 = 5 /\ shown2 = 5 /\ shown1 = 0 /\ shownLong = 0
    /\ logCount = 1

\* C5: the number of traces equals the number of distinct Counter1 values
\* that have been rendered.
OneTracePerCount1Value ==
    logCount = Cardinality(seen1)

OneTracePerCount1ValueWitness ==
    presses1 = 2 /\ presses2 = 4 /\ seen1 = {0, 1, 2} /\ logCount = 3

\* C6 as stated: after three presses of "Increase Count1" and none of
\* "Increase Count2", Counter1 = 3, Counter2 = 0, the derived value is 900 and
\* three traces have been emitted.
ThreeCount1PressesOriginal ==
    (presses1 = 3 /\ presses2 = 0) =>
        (shown1 = 3 /\ shown2 = 0 /\ shownLong = 900 /\ logCount = 3)

\* C6 as amended: after k presses of "Increase Count1" and none of "Increase
\* Count2", Counter1 = k, Counter2 = 0, the derived value is 300 * k, and
\* k + 1 traces have been emitted: one by the mount and one by each press.
OnlyCount1Presses ==
    presses2 = 0 =>
        /\ shown1 = presses1 /\ shown2 = 0
        /\ shownLong = 300 * presses1
        /\ logCount = presses1 + 1
        /\ (presses1 = 3 => shownLong = 900 /\ logCount = 4)

OnlyCount1PressesWitness ==
    presses1 = 3 /\ presses2 = 0 /\ shownLong = 900 /\ logCount = 4

\* C7: every press changes exactly one counter, by one, and is followed by
\* exactly one render; the renders after the mount number the presses.
OneRenderPerPress ==
    /\ [](renders = 1 + presses1 + presses2)
    /\ [][ /\ presses1' + presses2' = presses1 + presses2 + 1
           /\ renders' = renders + 1
           /\ \/ count1' = count1 + 1 /\ count2' = count2
              \/ count2' = count2 + 1 /\ count1' = count1 ]_vars

OneRenderPerPressWitness ==
    presses1 = 1 /\ presses2 = 2 /\ renders = 4

\* The settled state after m clicks on "Increase Count1" followed by n clicks
\* on "Increase Count2".
RECURSIVE Count1ThenCount2(_, _)
Count1ThenCount2(m, n) ==
    IF n > 0 THEN flush(incrementCount2(Count1ThenCount2(m, n - 1)))
    ELSE IF m > 0 THEN flush(incrementCount1(Count1ThenCount2(m - 1, 0)))
    ELSE Mounted

\* C8: whatever the order of the presses, the counters and the derived value
\* are those reached by pressing Count1 presses1 times and then Count2
\* presses2 times: Counter1 = m, Counter2 = n, derived value = 300 * m.
OrderDoesNotMatter ==
    LET c == Count1ThenCount2(presses1, presses2)
    IN  /\ shown1 = c.shown1 /\ shown2 = c.shown2 /\ shownLong = c.shownLong
        /\ count1 = c.count1 /\ count2 = c.count2
        /\ c.shown1 = presses1 /\ c.shown2 = presses2
        /\ c.shownLong = 300 * presses1

\* The interleaving C1, C2, C1, C2, C1 has happened: the fifth render was
\* triggered by a Count1 press that followed a Count2 press.
OrderDoesNotMatterWitness ==
    /\ presses1 = 3 /\ presses2 = 2 /\ renders = 6 /\ memo.ran
    /\ shown1 = 3 /\ shown2 = 2 /\ shownLong = 900

\* C9: with the handlers memoized over an empty dependency list, a counter is
\* 0 until its button is pressed and 1 ever after, however often it is
\* pressed; the handlers keep the values captured by the mount.
EmptyDepsIncrementsOnce ==
    /\ h1 = 0 /\ h2 = 0
    /\ count1 = (IF presses1 = 0 THEN 0 ELSE 1) /\ shown1 = count1
    /\ count2 = (IF presses2 = 0 THEN 0 ELSE 1) /\ shown2 = count2

EmptyDepsIncrementsOnceWitness ==
    presses1 = 3 /\ presses2 = 2 /\ count1 = 1 /\ count2 = 1

\* C10: a handler writes the value its closure captured plus one, so a counter
\* is never more than one above the rendered value, and it equals the number
\* of presses of its button less the presses made while an update of that
\* counter was still unrendered: at most the number of presses, with equality
\* exactly when each press was rendered before the next one.
StaleClosureLosesPresses ==
    /\ count1 \in {h1, h1 + 1} /\ h1 = shown1
    /\ count2 \in {h2, h2 + 1} /\ h2 = shown2
    /\ count1 = presses1 - lost1 /\ count2 = presses2 - lost2
    /\ count1 <= presses1 /\ count2 <= presses2
    /\ (count1 = presses1 <=> lost1 = 0)
    /\ (count2 = presses2 <=> lost2 = 0)

\* "Increase Count1" was pressed twice before the re-render was applied: the
\* counter settled one above the value rendered before, one press was lost.
StaleClosureLosesPressesWitness ==
    presses1 = 2 /\ lost1 = 1 /\ ~dirty /\ shown1 = 1 /\ renders = 2

====
